---- MODULE Spec2Model ----
(***************************************************************************)
(* Model of lib/secure-bucket.ts: the SecureBucket construct.  One         *)
(* behaviour is one evaluation of the constructor on one props object;     *)
(* pc is the constructor's position, the other variables are the fields    *)
(* of the construct and the child constructs registered so far.            *)
(*                                                                         *)
(* JavaScript strings are sequences of one-character strings, so that      *)
(* length, trim, the regular expressions and template concatenation are    *)
(* computed as the code computes them.  An optional value is <<>> when     *)
(* undefined and <<v>> when set.                                           *)
(***************************************************************************)
EXTENDS Naturals, Integers, Sequences, FiniteSets, TLC

\* ------------------------------------------------------------------------
\* Optional values and JavaScript truthiness
\* ------------------------------------------------------------------------

\* undefined
Absent == <<>>

\* a defined value v
Some(v) == <<v>>

\* the value of a defined optional
Val(o) == o[1]

\* truthiness of an optional string: undefined and '' are falsy
TruthyStr(o) == o # Absent /\ Val(o) # <<>>

\* truthiness of an optional boolean: undefined and false are falsy
TruthyBool(o) == o # Absent /\ Val(o) = TRUE

\* `x !== false` on an optional boolean
NotFalse(o) == o # Some(FALSE)

\* ------------------------------------------------------------------------
\* String literals of the source
\* ------------------------------------------------------------------------

\* 'projectId is required and cannot be empty'
MsgRequired ==
    <<"p","r","o","j","e","c","t","I","d"," ","i","s"," ","r","e","q","u","i","r","e",
      "d"," ","a","n","d"," ","c","a","n","n","o","t"," ","b","e"," ","e","m","p","t",
      "y">>

\* 'projectId must be 20 characters or less'
MsgTooLong ==
    <<"p","r","o","j","e","c","t","I","d"," ","m","u","s","t"," ","b","e"," ","2","0",
      " ","c","h","a","r","a","c","t","e","r","s"," ","o","r"," ","l","e","s","s">>

\* 'projectId must contain only lowercase letters, numbers, and hyphens'
MsgLowercase ==
    <<"p","r","o","j","e","c","t","I","d"," ","m","u","s","t"," ","c","o","n","t","a",
      "i","n"," ","o","n","l","y"," ","l","o","w","e","r","c","a","s","e"," ","l","e",
      "t","t","e","r","s",","," ","n","u","m","b","e","r","s",","," ","a","n","d"," ",
      "h","y","p","h","e","n","s">>

\* 'githubRepo must be in format "organization/repository"'
MsgGithubRepo ==
    <<"g","i","t","h","u","b","R","e","p","o"," ","m","u","s","t"," ","b","e"," ","i",
      "n"," ","f","o","r","m","a","t"," ","\"","o","r","g","a","n","i","z","a","t","i",
      "o","n","/","r","e","p","o","s","i","t","o","r","y","\"">>

\* 'dev'
StrDev ==
    <<"d","e","v">>

\* 'prod'
StrProd ==
    <<"p","r","o","d">>

\* 'secure-bucket'
StrSecureBucket ==
    <<"s","e","c","u","r","e","-","b","u","c","k","e","t">>

\* '-access-logs'
StrAccessLogsSuffix ==
    <<"-","a","c","c","e","s","s","-","l","o","g","s">>

\* 'access-logs/'
StrAccessLogsPrefix ==
    <<"a","c","c","e","s","s","-","l","o","g","s","/">>

\* 'alias/'
StrAliasPrefix ==
    <<"a","l","i","a","s","/">>

\* '-s3-'
StrS3Infix ==
    <<"-","s","3","-">>

\* 'KMS key for '
StrKeyDescPrefix ==
    <<"K","M","S"," ","k","e","y"," ","f","o","r"," ">>

\* ' S3 bucket encryption'
StrKeyDescSuffix ==
    <<" ","S","3"," ","b","u","c","k","e","t"," ","e","n","c","r","y","p","t","i","o",
      "n">>

\* '/aws/s3/'
StrLogGroupPrefix ==
    <<"/","a","w","s","/","s","3","/">>

\* '-github-oidc-role'
StrRoleSuffix ==
    <<"-","g","i","t","h","u","b","-","o","i","d","c","-","r","o","l","e">>

\* 'repo:'
StrRepoPrefix ==
    <<"r","e","p","o",":">>

\* ':ref:refs/heads/'
StrRefInfix ==
    <<":","r","e","f",":","r","e","f","s","/","h","e","a","d","s","/">>

\* 'main'
StrMain ==
    <<"m","a","i","n">>

\* 'develop'
StrDevelop ==
    <<"d","e","v","e","l","o","p">>


\* '-BucketName'
StrOutBucketName ==
    <<"-","B","u","c","k","e","t","N","a","m","e">>
\* '-BucketArn'
StrOutBucketArn ==
    <<"-","B","u","c","k","e","t","A","r","n">>
\* '-EncryptionKeyArn'
StrOutEncryptionKeyArn ==
    <<"-","E","n","c","r","y","p","t","i","o","n","K","e","y","A","r","n">>
\* '-GitHubOidcRoleArn'
StrOutGitHubOidcRoleArn ==
    <<"-","G","i","t","H","u","b","O","i","d","c","R","o","l","e","A","r","n">>
\* '-LogGroupName'
StrOutLogGroupName ==
    <<"-","L","o","g","G","r","o","u","p","N","a","m","e">>

\* ------------------------------------------------------------------------
\* Bounds of the input space
\* ------------------------------------------------------------------------

\* at most this many props deviate from the minimal props object
MaxSupplied == 2

\* ------------------------------------------------------------------------
\* Characters and string helpers
\* ------------------------------------------------------------------------

LowerChars ==
    {"a","b","c","d","e","f","g","h","i","j","k","l","m",
     "n","o","p","q","r","s","t","u","v","w","x","y","z"}

UpperChars ==
    {"A","B","C","D","E","F","G","H","I","J","K","L","M",
     "N","O","P","Q","R","S","T","U","V","W","X","Y","Z"}

DigitChars ==
    {"0","1","2","3","4","5","6","7","8","9"}

\* the characters String.prototype.trim removes (those the inputs use)
WhitespaceChars ==
    {" ", "\t", "\n"}

\* the string made of n copies of character c
RECURSIVE Repeat(_, _)
Repeat(c, n) ==
    IF n = 0 THEN <<>> ELSE <<c>> \o Repeat(c, n - 1)

\* String.prototype.trim
RECURSIVE TrimStart(_)
TrimStart(s) ==
    IF s # <<>> /\ Head(s) \in WhitespaceChars THEN TrimStart(Tail(s)) ELSE s

RECURSIVE TrimEnd(_)
TrimEnd(s) ==
    IF s # <<>> /\ s[Len(s)] \in WhitespaceChars
    THEN TrimEnd(SubSeq(s, 1, Len(s) - 1))
    ELSE s

Trim(s) ==
    TrimEnd(TrimStart(s))

\* String.prototype.includes
Contains(s, t) ==
    \E i \in 1..(Len(s) - Len(t) + 1) : SubSeq(s, i, i + Len(t) - 1) = t

\* /^[a-z0-9-]+$/.test(s)
MatchesProjectId(s) ==
    /\ Len(s) >= 1
    /\ \A i \in 1..Len(s) : s[i] \in LowerChars \cup DigitChars \cup {"-"}

\* the class [a-zA-Z0-9_.-]
RepoChars ==
    LowerChars \cup UpperChars \cup DigitChars \cup {"_", ".", "-"}

\* /^[a-zA-Z0-9_.-]+\/[a-zA-Z0-9_.-]+$/.test(s)
MatchesOrgRepo(s) ==
    \E k \in 2..(Len(s) - 1) :
        /\ s[k] = "/"
        /\ \A i \in 1..Len(s) : i # k => s[i] \in RepoChars

\* ------------------------------------------------------------------------
\* SecureBucketProps: the input space
\* ------------------------------------------------------------------------

\* the longest projectId validateProps accepts
MaxProjectIdLen == 20

\* a caller-defined lifecycle rule
CustomRule ==
    [id |-> "custom-rule", enabled |-> TRUE, expiration |-> Some(5),
     abortIncompleteMultipartUploadAfter |-> Absent,
     noncurrentVersionExpiration |-> Absent, transitions |-> <<>>]

\* the props object { projectId: 'p1' }
MinimalProps ==
    [projectId |-> <<"p","1">>,
     bucketNameSuffix |-> Absent,
     enableVersioning |-> Absent,
     enableEncryption |-> Absent,
     githubRepo |-> Absent,
     allowedBranches |-> Absent,
     environment |-> Absent,
     enableAccessLogging |-> Absent,
     accessLogBucket |-> Absent,
     lifecycleRules |-> Absent,
     corsRules |-> Absent,
     publicReadAccess |-> Absent,
     additionalPrincipals |-> Absent,
     encryptionKey |-> Absent,
     enableIntelligentTiering |-> Absent,
     transferAcceleration |-> Absent,
     notificationConfiguration |-> Absent]

\* the props of SecureBucketProps, in the order of the interface
PropNames ==
    <<"projectId", "bucketNameSuffix", "enableVersioning", "enableEncryption",
      "githubRepo", "allowedBranches", "environment", "enableAccessLogging",
      "accessLogBucket", "lifecycleRules", "corsRules", "publicReadAccess",
      "additionalPrincipals", "encryptionKey", "enableIntelligentTiering",
      "transferAcceleration", "notificationConfiguration">>

OptBool == {Some(TRUE), Some(FALSE)}

\* the values a prop takes when the caller sets it
PropValues(f) ==
    CASE f = "projectId" ->
            {<<>>, <<" ">>, <<" ","a">>, <<"A","b">>, <<"a","_","1">>, <<"a","-","9">>,
             Repeat("a", MaxProjectIdLen), Repeat("a", MaxProjectIdLen + 1),
             Repeat("A", MaxProjectIdLen + 1), Repeat(" ", MaxProjectIdLen + 1)}
      [] f = "bucketNameSuffix" -> {Some(<<>>), Some(<<"c","b">>)}
      [] f = "enableVersioning" -> OptBool
      [] f = "enableEncryption" -> OptBool
      [] f = "githubRepo" ->
            {Some(<<>>), Some(<<"o","/","r">>), Some(<<"O","_",".","/","r","-","2">>),
             Some(<<"o","r">>), Some(<<"o","/">>), Some(<<"o","/","r","/","x">>),
             Some(<<"o"," ","/","r">>)}
      [] f = "allowedBranches" ->
            {Some(<<>>), Some(<<StrMain>>), Some(<<<<"r","1">>, StrMain>>)}
      [] f = "environment" ->
            {Some(<<>>), Some(StrDev), Some(StrProd), Some(<<"P","R","O","D">>)}
      [] f = "enableAccessLogging" -> OptBool
      [] f = "accessLogBucket" -> {Some(<<>>), Some(<<"e","x","t">>)}
      [] f = "lifecycleRules" -> {Some(<<>>), Some(<<CustomRule>>)}
      [] f = "corsRules" -> {Some(<<"cors-rule">>)}
      [] f = "publicReadAccess" -> OptBool
      [] f = "additionalPrincipals" -> {Some(<<"account-principal">>)}
      [] f = "encryptionKey" -> {Some("CustomKey")}
      [] f = "enableIntelligentTiering" -> OptBool
      [] f = "transferAcceleration" -> OptBool
      [] f = "notificationConfiguration" ->
            {Some([cloudWatchMetrics |-> TRUE, eventBridge |-> FALSE])}

\* the props objects that differ from the minimal one in at most k of the props
\* PropNames[i], PropNames[i+1], ...
RECURSIVE Supplied(_, _)
Supplied(i, k) ==
    IF i > Len(PropNames) \/ k = 0
    THEN {MinimalProps}
    ELSE Supplied(i + 1, k)
            \cup {[p EXCEPT ![PropNames[i]] = v] :
                      p \in Supplied(i + 1, k - 1), v \in PropValues(PropNames[i])}

PropsSpace ==
    Supplied(1, MaxSupplied)

\* ------------------------------------------------------------------------
\* validateProps
\* ------------------------------------------------------------------------

\* validateProps with the character check placed before the length check
ValidateProps_CharsBeforeLength(p) ==
    IF p.projectId = <<>> \/ Trim(p.projectId) = <<>>
    THEN Some(MsgRequired)
    ELSE IF ~MatchesProjectId(p.projectId)
    THEN Some(MsgLowercase)
    ELSE IF Len(p.projectId) > MaxProjectIdLen
    THEN Some(MsgTooLong)
    ELSE IF TruthyStr(p.githubRepo) /\ ~MatchesOrgRepo(Val(p.githubRepo))
    THEN Some(MsgGithubRepo)
    ELSE Absent

\* the message of the error validateProps throws, or undefined
ValidateProps(p) ==
    IF p.projectId = <<>> \/ Trim(p.projectId) = <<>>
    THEN Some(MsgRequired)
    ELSE IF Len(p.projectId) > MaxProjectIdLen
    THEN Some(MsgTooLong)
    ELSE IF ~MatchesProjectId(p.projectId)
    THEN Some(MsgLowercase)
    ELSE IF TruthyStr(p.githubRepo) /\ ~MatchesOrgRepo(Val(p.githubRepo))
    THEN Some(MsgGithubRepo)
    ELSE Absent

\* ------------------------------------------------------------------------
\* Names resolved at the top of the constructor
\* ------------------------------------------------------------------------

\* props.environment || 'dev'
Environment(p) ==
    IF TruthyStr(p.environment) THEN Val(p.environment) ELSE StrDev

\* the suffix written `props.bucketNameSuffix ?? 'secure-bucket'`
BucketNameSuffix_Nullish(p) ==
    IF p.bucketNameSuffix # Absent THEN Val(p.bucketNameSuffix) ELSE StrSecureBucket

\* props.bucketNameSuffix || 'secure-bucket'
BucketNameSuffix(p) ==
    IF TruthyStr(p.bucketNameSuffix) THEN Val(p.bucketNameSuffix) ELSE StrSecureBucket

\* `${props.projectId}-${bucketNameSuffix}-${environment}`
BucketName(p) ==
    p.projectId \o <<"-">> \o BucketNameSuffix(p) \o <<"-">> \o Environment(p)

\* ------------------------------------------------------------------------
\* Helpers of the main bucket
\* ------------------------------------------------------------------------

\* getEncryptionConfiguration looking at the keys before the enableEncryption flag
getEncryptionConfiguration_KeyFirst(p, key) ==
    IF p.encryptionKey # Absent \/ key # Absent
    THEN "KMS"
    ELSE IF p.enableEncryption = Some(FALSE)
    THEN "UNENCRYPTED"
    ELSE "S3_MANAGED"

\* getEncryptionConfiguration; key is this.encryptionKey
getEncryptionConfiguration(p, key) ==
    IF p.enableEncryption = Some(FALSE)
    THEN "UNENCRYPTED"
    ELSE IF p.encryptionKey # Absent \/ key # Absent
    THEN "KMS"
    ELSE "S3_MANAGED"

\* s3.BlockPublicAccess.BLOCK_ALL
BLOCK_ALL ==
    [blockPublicAcls |-> TRUE, blockPublicPolicy |-> TRUE,
     ignorePublicAcls |-> TRUE, restrictPublicBuckets |-> TRUE]

\* getPublicAccessConfiguration testing `props.publicReadAccess !== undefined`
getPublicAccessConfiguration_WhenDefined(p) ==
    IF p.publicReadAccess # Absent
    THEN [blockPublicAcls |-> TRUE, blockPublicPolicy |-> FALSE,
          ignorePublicAcls |-> TRUE, restrictPublicBuckets |-> FALSE]
    ELSE BLOCK_ALL

\* getPublicAccessConfiguration
getPublicAccessConfiguration(p) ==
    IF TruthyBool(p.publicReadAccess)
    THEN [blockPublicAcls |-> TRUE, blockPublicPolicy |-> FALSE,
          ignorePublicAcls |-> TRUE, restrictPublicBuckets |-> FALSE]
    ELSE BLOCK_ALL

\* the prod rule with its first two transitions exchanged
ProductionLifecycle_GlacierFirst ==
    [id |-> "production-lifecycle", enabled |-> TRUE, expiration |-> Absent,
     abortIncompleteMultipartUploadAfter |-> Some(7),
     noncurrentVersionExpiration |-> Some(365),
     transitions |-> <<[storageClass |-> "GLACIER", transitionAfter |-> 90],
                       [storageClass |-> "INFREQUENT_ACCESS", transitionAfter |-> 30],
                       [storageClass |-> "DEEP_ARCHIVE", transitionAfter |-> 365]>>]

\* the default rule of the prod environment
ProductionLifecycle ==
    [id |-> "production-lifecycle", enabled |-> TRUE, expiration |-> Absent,
     abortIncompleteMultipartUploadAfter |-> Some(7),
     noncurrentVersionExpiration |-> Some(365),
     transitions |-> <<[storageClass |-> "INFREQUENT_ACCESS", transitionAfter |-> 30],
                       [storageClass |-> "GLACIER", transitionAfter |-> 90],
                       [storageClass |-> "DEEP_ARCHIVE", transitionAfter |-> 365]>>]

\* the default rule of every other environment
DevelopmentLifecycle ==
    [id |-> "development-lifecycle", enabled |-> TRUE, expiration |-> Some(30),
     abortIncompleteMultipartUploadAfter |-> Some(1),
     noncurrentVersionExpiration |-> Some(7), transitions |-> <<>>]

\* getLifecycleRules comparing the environment without regard to case
getLifecycleRules_AnyCaseProd(p, environment) ==
    IF p.lifecycleRules # Absent
    THEN Val(p.lifecycleRules)
    ELSE IF environment \in {StrProd, <<"P","R","O","D">>}
    THEN <<ProductionLifecycle>>
    ELSE <<DevelopmentLifecycle>>

\* getLifecycleRules testing `props.lifecycleRules?.length`
getLifecycleRules_EmptyAsAbsent(p, environment) ==
    IF p.lifecycleRules # Absent /\ Val(p.lifecycleRules) # <<>>
    THEN Val(p.lifecycleRules)
    ELSE IF environment = StrProd
    THEN <<ProductionLifecycle>>
    ELSE <<DevelopmentLifecycle>>

\* getLifecycleRules
getLifecycleRules(p, environment) ==
    IF p.lifecycleRules # Absent
    THEN Val(p.lifecycleRules)
    ELSE IF environment = StrProd
    THEN <<ProductionLifecycle>>
    ELSE <<DevelopmentLifecycle>>

\* the rule of the internal access log bucket
AccessLogsLifecycle ==
    [id |-> "access-logs-lifecycle", enabled |-> TRUE, expiration |-> Some(90),
     abortIncompleteMultipartUploadAfter |-> Absent,
     noncurrentVersionExpiration |-> Absent, transitions |-> <<>>]

\* the intelligentTieringConfigurations prop of the main bucket
IntelligentTiering(p) ==
    IF TruthyBool(p.enableIntelligentTiering)
    THEN Some(<<[id |-> "EntireBucket", status |-> "ENABLED",
                 optionalFields |-> <<"BUCKET_KEY_STATUS">>]>>)
    ELSE Absent

\* ------------------------------------------------------------------------
\* createBucketPolicy
\* ------------------------------------------------------------------------

BucketAndObjects == {"bucketArn", "arnForObjects(*)"}

DenyInsecureConnections ==
    [sid |-> "DenyInsecureConnections", effect |-> "Deny", principals |-> "AnyPrincipal",
     actions |-> {"s3:*"}, resources |-> BucketAndObjects,
     condition |-> [operator |-> "Bool", key |-> "aws:SecureTransport",
                    value |-> "false"]]

\* key is this.encryptionKey
DenyUnencryptedUploads(key) ==
    [sid |-> "DenyUnencryptedUploads", effect |-> "Deny", principals |-> "AnyPrincipal",
     actions |-> {"s3:PutObject"}, resources |-> {"arnForObjects(*)"},
     condition |-> [operator |-> "StringNotEquals",
                    key |-> "s3:x-amz-server-side-encryption",
                    value |-> IF key # Absent THEN "aws:kms" ELSE "AES256"]]

CombinedSecurityPolicy ==
    [sid |-> "CombinedSecurityPolicy", effect |-> "Deny", principals |-> "AnyPrincipal",
     actions |-> {"s3:*"}, resources |-> BucketAndObjects,
     condition |-> [operator |-> "Bool", key |-> "aws:SecureTransport",
                    value |-> "false"]]

\* the local array policyStatements of createBucketPolicy
policyStatements(p, key) ==
    <<DenyInsecureConnections>>
        \o (IF NotFalse(p.enableEncryption) THEN <<DenyUnencryptedUploads(key)>> ELSE <<>>)

\* createBucketPolicy with the guard `policyStatements.length > 1`
AddedToResourcePolicy_LengthAboveOne(p, key) ==
    IF Len(policyStatements(p, key)) > 1 THEN <<CombinedSecurityPolicy>> ELSE <<>>

\* a createBucketPolicy that lets the additional principals read the objects
AddedToResourcePolicy_AllowsPrincipals(p, key) ==
    <<CombinedSecurityPolicy>>
        \o (IF p.additionalPrincipals # Absent
            THEN <<[sid |-> "AdditionalPrincipals", effect |-> "Allow",
                    principals |-> Val(p.additionalPrincipals),
                    actions |-> {"s3:GetObject"}, resources |-> BucketAndObjects,
                    condition |-> [operator |-> "Bool", key |-> "aws:SecureTransport",
                                   value |-> "true"]]>>
            ELSE <<>>)

\* the statements createBucketPolicy passes to bucket.addToResourcePolicy
AddedToResourcePolicy(p, key) ==
    IF Len(policyStatements(p, key)) > 0 THEN <<CombinedSecurityPolicy>> ELSE <<>>

\* ------------------------------------------------------------------------
\* createGitHubOidcIntegration
\* ------------------------------------------------------------------------

\* the branch list with the default ['main']
AllowedBranches_MainOnly(p) ==
    IF p.allowedBranches # Absent THEN Val(p.allowedBranches) ELSE <<StrMain>>

\* the branch list with the defaults substituted for an empty list too
AllowedBranches_EmptyAsAbsent(p) ==
    IF p.allowedBranches # Absent /\ Val(p.allowedBranches) # <<>>
    THEN Val(p.allowedBranches)
    ELSE <<StrMain, StrDevelop>>

\* props.allowedBranches || ['main', 'develop']
AllowedBranches(p) ==
    IF p.allowedBranches # Absent THEN Val(p.allowedBranches) ELSE <<StrMain, StrDevelop>>

\* allowedBranches.map(branch => `repo:${props.githubRepo}:ref:refs/heads/${branch}`)
SubjectConditions(p) ==
    [i \in 1..Len(AllowedBranches(p)) |->
        StrRepoPrefix \o Val(p.githubRepo) \o StrRefInfix \o AllowedBranches(p)[i]]

\* the roleName written with `props.bucketNameSuffix ?? 'secure-bucket'`
RoleName_NullishSuffix(p, environment) ==
    p.projectId \o <<"-">>
        \o (IF p.bucketNameSuffix # Absent THEN Val(p.bucketNameSuffix) ELSE StrSecureBucket)
        \o <<"-">> \o environment \o StrRoleSuffix

\* the roleName of the GitHub Actions role
RoleName(p, environment) ==
    p.projectId \o <<"-">> \o BucketNameSuffix(p) \o <<"-">> \o environment
        \o StrRoleSuffix

\* the iam.Role createGitHubOidcIntegration returns
GitHubOidcRole(p, environment) ==
    [id |-> "GitHubOidcRole", roleName |-> RoleName(p, environment),
     provider |-> "GitHubOidcProvider",
     aud |-> "sts.amazonaws.com", sub |-> SubjectConditions(p)]

\* the iam.OpenIdConnectProvider
GitHubOidcProvider ==
    [id |-> "GitHubOidcProvider", url |-> "https://token.actions.githubusercontent.com",
     clientIds |-> <<"sts.amazonaws.com">>]

\* the grants without the grant on the key
RoleGrants_NoKeyGrant(key) ==
    {[grantee |-> "GitHubOidcRole", resource |-> "Bucket", access |-> "ReadWrite"]}

\* the grants given to the role; key is this.encryptionKey
RoleGrants(key) ==
    {[grantee |-> "GitHubOidcRole", resource |-> "Bucket", access |-> "ReadWrite"]}
        \cup (IF key # Absent
              THEN {[grantee |-> "GitHubOidcRole", resource |-> Val(key),
                     access |-> "EncryptDecrypt"]}
              ELSE {})

\* ------------------------------------------------------------------------
\* createOutputs
\* ------------------------------------------------------------------------

\* the export prefix without the environment
ExportPrefix_NoEnvironment(p, environment) ==
    p.projectId \o <<"-">> \o BucketNameSuffix(p)

\* `${props.projectId}-${props.bucketNameSuffix || 'secure-bucket'}-${environment}`
ExportPrefix(p, environment) ==
    p.projectId \o <<"-">> \o BucketNameSuffix(p) \o <<"-">> \o environment

\* the CfnOutputs createOutputs registers; key is this.encryptionKey, role is
\* this.githubOidcRole
Outputs(p, environment, key, role) ==
    {[id |-> "BucketName", exportName |-> ExportPrefix(p, environment) \o StrOutBucketName],
     [id |-> "BucketArn", exportName |-> ExportPrefix(p, environment) \o StrOutBucketArn],
     [id |-> "LogGroupName",
      exportName |-> ExportPrefix(p, environment) \o StrOutLogGroupName]}
        \cup (IF key # Absent
              THEN {[id |-> "EncryptionKeyArn",
                     exportName |-> ExportPrefix(p, environment) \o StrOutEncryptionKeyArn]}
              ELSE {})
        \cup (IF role # Absent
              THEN {[id |-> "GitHubOidcRoleArn",
                     exportName |-> ExportPrefix(p, environment)
                                        \o StrOutGitHubOidcRoleArn]}
              ELSE {})

\* ------------------------------------------------------------------------
\* The constructor of SecureBucket as a state machine
\* ------------------------------------------------------------------------

VARIABLES
    props,            \* the props argument
    pc,               \* the constructor's position
    error,            \* the message of the error thrown, if any
    encryptionKey,    \* this.encryptionKey
    keys,             \* the kms.Key constructs created
    aliases,          \* the kms.Alias constructs created
    accessLogBucket,  \* the local accessLogBucket
    bucket,           \* this.bucket
    bucketPolicy,     \* the statements of the main bucket's resource policy
    oidcProviders,    \* the iam.OpenIdConnectProvider constructs created
    githubOidcRole,   \* this.githubOidcRole
    grants,           \* the grants given on the bucket and the key
    logGroup,         \* this.logGroup
    outputs,          \* the CfnOutput constructs created
    first,            \* what an earlier resolution in another scope produced
    app,              \* the SecureBucketApp under construction, if any
    simple            \* the simplified SecureBucket construct, if any

vars ==
    <<props, pc, error, encryptionKey, keys, aliases, accessLogBucket, bucket,
      bucketPolicy, oidcProviders, githubOidcRole, grants, logGroup, outputs,
      first, app, simple>>

Init ==
    /\ props \in PropsSpace
    /\ pc = "validate"
    /\ error = Absent
    /\ encryptionKey = Absent
    /\ keys = {}
    /\ aliases = {}
    /\ accessLogBucket = Absent
    /\ bucket = Absent
    /\ bucketPolicy = <<>>
    /\ oidcProviders = {}
    /\ githubOidcRole = Absent
    /\ grants = {}
    /\ logGroup = Absent
    /\ outputs = {}
    /\ first = Absent
    /\ app = Absent
    /\ simple = Absent

\* a constructor that records the validation error and carries on
Validate_NoThrow ==
    /\ pc = "validate"
    /\ error' = ValidateProps(props)
    /\ pc' = "encryption"
    /\ UNCHANGED <<first, app, simple>>
    /\ UNCHANGED <<props, encryptionKey, keys, aliases, accessLogBucket, bucket,
                   bucketPolicy, oidcProviders, githubOidcRole, grants, logGroup,
                   outputs>>

\* this.validateProps(props): a throw ends the constructor
Validate ==
    /\ pc = "validate"
    /\ error' = ValidateProps(props)
    /\ pc' = IF ValidateProps(props) = Absent THEN "encryption" ELSE "failed"
    /\ UNCHANGED <<first, app, simple>>
    /\ UNCHANGED <<props, encryptionKey, keys, aliases, accessLogBucket, bucket,
                   bucketPolicy, oidcProviders, githubOidcRole, grants, logGroup,
                   outputs>>

\* the key condition written `props.enableEncryption === true`
CreatesKey_OnlyWhenTrue(p) ==
    TruthyBool(p.enableEncryption)

\* the condition under which the constructor creates the key and its alias
CreatesKey(p) ==
    NotFalse(p.enableEncryption)

\* the kms.Key the constructor creates
EncryptionKey(p) ==
    [id |-> "EncryptionKey",
     description |-> StrKeyDescPrefix \o p.projectId \o StrKeyDescSuffix,
     enableKeyRotation |-> TRUE]

\* the kms.Alias the constructor creates
EncryptionKeyAlias(p) ==
    [id |-> "EncryptionKeyAlias",
     aliasName |-> StrAliasPrefix \o p.projectId \o StrS3Infix \o Environment(p),
     targetKey |-> "EncryptionKey"]

\* "Create KMS key if encryption is enabled"
CreateEncryptionKey ==
    /\ pc = "encryption"
    /\ IF CreatesKey(props)
       THEN /\ encryptionKey' = Some("EncryptionKey")
            /\ keys' = keys \cup {EncryptionKey(props)}
            /\ aliases' = aliases \cup {EncryptionKeyAlias(props)}
       ELSE UNCHANGED <<encryptionKey, keys, aliases>>
    /\ pc' = "accessLog"
    /\ UNCHANGED <<first, app, simple>>
    /\ UNCHANGED <<props, error, accessLogBucket, bucket, bucketPolicy, oidcProviders,
                   githubOidcRole, grants, logGroup, outputs>>

\* the log bucket condition without the test of props.accessLogBucket
CreatesAccessLogBucket_IgnoresExternal(p) ==
    NotFalse(p.enableAccessLogging)

\* the condition under which the constructor creates the access log bucket
CreatesAccessLogBucket(p) ==
    NotFalse(p.enableAccessLogging) /\ ~TruthyStr(p.accessLogBucket)

\* the s3.Bucket 'AccessLogBucket'
AccessLogBucket(p) ==
    [id |-> "AccessLogBucket",
     bucketName |-> BucketName(p) \o StrAccessLogsSuffix,
     encryption |-> "S3_MANAGED",
     blockPublicAccess |-> BLOCK_ALL,
     lifecycleRules |-> <<AccessLogsLifecycle>>]

\* "Create access log bucket if needed"
CreateAccessLogBucket ==
    /\ pc = "accessLog"
    /\ accessLogBucket' =
          IF CreatesAccessLogBucket(props) THEN Some(AccessLogBucket(props)) ELSE Absent
    /\ pc' = "bucket"
    /\ UNCHANGED <<first, app, simple>>
    /\ UNCHANGED <<props, error, encryptionKey, keys, aliases, bucket, bucketPolicy,
                   oidcProviders, githubOidcRole, grants, logGroup, outputs>>

\* the serverAccessLogsBucket prop: the name of the local accessLogBucket
ServerAccessLogsBucket(logBucket) ==
    IF logBucket = Absent THEN Absent ELSE Some(Val(logBucket).bucketName)

\* the serverAccessLogsPrefix prop
ServerAccessLogsPrefix(p) ==
    IF TruthyStr(p.accessLogBucket) THEN Absent ELSE Some(StrAccessLogsPrefix)

\* the main bucket with `versioned: props.enableVersioning === true`
MainBucket_VersionedWhenTrue(p, key, logBucket) ==
    [id |-> "Bucket",
     bucketName |-> BucketName(p),
     versioned |-> TruthyBool(p.enableVersioning),
     encryption |-> getEncryptionConfiguration(p, key),
     encryptionKey |-> key,
     blockPublicAccess |-> getPublicAccessConfiguration(p),
     serverAccessLogsBucket |-> ServerAccessLogsBucket(logBucket),
     serverAccessLogsPrefix |-> ServerAccessLogsPrefix(p),
     lifecycleRules |-> getLifecycleRules(p, Environment(p)),
     cors |-> p.corsRules,
     transferAcceleration |-> p.transferAcceleration,
     intelligentTieringConfigurations |-> IntelligentTiering(p)]

\* the s3.Bucket 'Bucket'; key is this.encryptionKey, logBucket the local
\* accessLogBucket
MainBucket(p, key, logBucket) ==
    [id |-> "Bucket",
     bucketName |-> BucketName(p),
     versioned |-> NotFalse(p.enableVersioning),
     encryption |-> getEncryptionConfiguration(p, key),
     encryptionKey |-> key,
     blockPublicAccess |-> getPublicAccessConfiguration(p),
     serverAccessLogsBucket |-> ServerAccessLogsBucket(logBucket),
     serverAccessLogsPrefix |-> ServerAccessLogsPrefix(p),
     lifecycleRules |-> getLifecycleRules(p, Environment(p)),
     cors |-> p.corsRules,
     transferAcceleration |-> p.transferAcceleration,
     intelligentTieringConfigurations |-> IntelligentTiering(p)]

\* "Create main S3 bucket"
CreateBucket ==
    /\ pc = "bucket"
    /\ bucket' = Some(MainBucket(props, encryptionKey, accessLogBucket))
    /\ pc' = "policy"
    /\ UNCHANGED <<first, app, simple>>
    /\ UNCHANGED <<props, error, encryptionKey, keys, aliases, accessLogBucket,
                   bucketPolicy, oidcProviders, githubOidcRole, grants, logGroup,
                   outputs>>

\* this.createBucketPolicy(props)
createBucketPolicy ==
    /\ pc = "policy"
    /\ bucketPolicy' = bucketPolicy \o AddedToResourcePolicy(props, encryptionKey)
    /\ pc' = "oidc"
    /\ UNCHANGED <<first, app, simple>>
    /\ UNCHANGED <<props, error, encryptionKey, keys, aliases, accessLogBucket, bucket,
                   oidcProviders, githubOidcRole, grants, logGroup, outputs>>

\* a constructor that goes from the OIDC integration straight to the outputs
createGitHubOidcIntegration_ThenOutputs ==
    /\ pc = "oidc"
    /\ IF TruthyStr(props.githubRepo)
       THEN /\ oidcProviders' = oidcProviders \cup {GitHubOidcProvider}
            /\ githubOidcRole' = Some(GitHubOidcRole(props, Environment(props)))
            /\ grants' = grants \cup RoleGrants(encryptionKey)
       ELSE UNCHANGED <<oidcProviders, githubOidcRole, grants>>
    /\ pc' = "outputs"
    /\ UNCHANGED <<first, app, simple>>
    /\ UNCHANGED <<props, error, encryptionKey, keys, aliases, accessLogBucket, bucket,
                   bucketPolicy, logGroup, outputs>>

\* "Create GitHub OIDC integration if specified"
createGitHubOidcIntegration ==
    /\ pc = "oidc"
    /\ IF TruthyStr(props.githubRepo)
       THEN /\ oidcProviders' = oidcProviders \cup {GitHubOidcProvider}
            /\ githubOidcRole' = Some(GitHubOidcRole(props, Environment(props)))
            /\ grants' = grants \cup RoleGrants(encryptionKey)
       ELSE UNCHANGED <<oidcProviders, githubOidcRole, grants>>
    /\ pc' = "logGroup"
    /\ UNCHANGED <<first, app, simple>>
    /\ UNCHANGED <<props, error, encryptionKey, keys, aliases, accessLogBucket, bucket,
                   bucketPolicy, logGroup, outputs>>

\* RetentionDays, in days
RetentionInDays(retention) ==
    CASE retention = "SIX_MONTHS" -> 180

\* a log group named after the project alone
LogGroup_ProjectName(p) ==
    [id |-> "LogGroup", logGroupName |-> StrLogGroupPrefix \o p.projectId,
     retention |-> "SIX_MONTHS"]

\* the logs.LogGroup 'LogGroup'
LogGroup(p) ==
    [id |-> "LogGroup", logGroupName |-> StrLogGroupPrefix \o BucketName(p),
     retention |-> "SIX_MONTHS"]

\* "Create CloudWatch log group"
CreateLogGroup ==
    /\ pc = "logGroup"
    /\ logGroup' = Some(LogGroup(props))
    /\ pc' = "outputs"
    /\ UNCHANGED <<first, app, simple>>
    /\ UNCHANGED <<props, error, encryptionKey, keys, aliases, accessLogBucket, bucket,
                   bucketPolicy, oidcProviders, githubOidcRole, grants, outputs>>

\* this.createOutputs(props, environment)
createOutputs ==
    /\ pc = "outputs"
    /\ outputs' = outputs \cup Outputs(props, Environment(props), encryptionKey,
                                       githubOidcRole)
    /\ pc' = "done"
    /\ UNCHANGED <<first, app, simple>>
    /\ UNCHANGED <<props, error, encryptionKey, keys, aliases, accessLogBucket, bucket,
                   bucketPolicy, oidcProviders, githubOidcRole, grants, logGroup>>

Next ==
    \/ Validate
    \/ CreateEncryptionKey
    \/ CreateAccessLogBucket
    \/ CreateBucket
    \/ createBucketPolicy
    \/ createGitHubOidcIntegration
    \/ CreateLogGroup
    \/ createOutputs

Spec == Init /\ [][Next]_vars

\* ------------------------------------------------------------------------
\* Two SecureBucket constructs in scopes of their own
\* ------------------------------------------------------------------------

\* what the constructor has produced
Resolution ==
    [pc |-> pc, error |-> error, encryptionKey |-> encryptionKey, keys |-> keys,
     aliases |-> aliases, accessLogBucket |-> accessLogBucket, bucket |-> bucket,
     bucketPolicy |-> bucketPolicy, oidcProviders |-> oidcProviders,
     githubOidcRole |-> githubOidcRole, grants |-> grants, logGroup |-> logGroup,
     outputs |-> outputs]

\* the props objects equal to p in every prop but additionalPrincipals and
\* notificationConfiguration
DifferingInUnread(p) ==
    {[p EXCEPT !.additionalPrincipals = a, !.notificationConfiguration = n] :
        a \in {Absent} \cup PropValues("additionalPrincipals"),
        n \in {Absent} \cup PropValues("notificationConfiguration")} \ {p}

\* `new SecureBucket(otherScope, id, props2)` after a first constructor has ended:
\* nothing of the first construct is visible in the other scope
SecondConstruct ==
    /\ pc \in {"done", "failed"}
    /\ first = Absent
    /\ first' = Some([props |-> props, resolution |-> Resolution])
    /\ props' \in DifferingInUnread(props)
    /\ pc' = "validate"
    /\ error' = Absent
    /\ encryptionKey' = Absent
    /\ keys' = {}
    /\ aliases' = {}
    /\ accessLogBucket' = Absent
    /\ bucket' = Absent
    /\ bucketPolicy' = <<>>
    /\ oidcProviders' = {}
    /\ githubOidcRole' = Absent
    /\ grants' = {}
    /\ logGroup' = Absent
    /\ outputs' = {}
    /\ UNCHANGED <<app, simple>>

NextTwo ==
    \/ Next
    \/ SecondConstruct

SpecTwo == Init /\ [][NextTwo]_vars

\* ------------------------------------------------------------------------
\* bin/app.ts: SecureBucketApp
\* ------------------------------------------------------------------------

\* 'astrazeneca-dev'
StrProjectDev ==
    <<"a","s","t","r","a","z","e","n","e","c","a","-","d","e","v">>
\* 'astrazeneca-prod'
StrProjectProd ==
    <<"a","s","t","r","a","z","e","n","e","c","a","-","p","r","o","d">>
\* 'astrazeneca/secure-s3-cdk'
StrDefaultRepo ==
    <<"a","s","t","r","a","z","e","n","e","c","a","/","s","e","c","u","r","e","-","s",
      "3","-","c","d","k">>
\* 'feature/*'
StrFeatureBranches ==
    <<"f","e","a","t","u","r","e","/","*">>
\* 'AstraZeneca-SecureBucket-'
StrStackIdPrefix ==
    <<"A","s","t","r","a","Z","e","n","e","c","a","-","S","e","c","u","r","e","B","u",
      "c","k","e","t","-">>
\* 'staging', the name of no configured environment
StrStaging ==
    <<"s","t","a","g","i","n","g">>

\* the values of the context key 'env'
ContextValues ==
    {Absent, Some(<<>>), Some(StrDev), Some(StrProd), Some(StrStaging),
     Some(<<"D","e","v">>)}

\* the values of process.env.GITHUB_REPOSITORY
RepositoryValues ==
    {Absent, Some(<<>>), Some(<<"o","/","r">>), Some(<<"o","r">>)}

\* the keys of config.environments, in the order Object.entries yields them
EnvironmentNames ==
    <<StrDev, StrProd>>

\* process.env.GITHUB_REPOSITORY || 'astrazeneca/secure-s3-cdk'
ConfiguredRepo(repository) ==
    IF TruthyStr(repository) THEN Val(repository) ELSE StrDefaultRepo

\* the lifecycle rule of the prod configuration
ProductionLifecyclePolicy ==
    [id |-> "production-lifecycle-policy", enabled |-> TRUE, expiration |-> Absent,
     abortIncompleteMultipartUploadAfter |-> Some(7),
     noncurrentVersionExpiration |-> Some(365),
     transitions |-> <<[storageClass |-> "STANDARD_IA", transitionAfter |-> 30],
                       [storageClass |-> "GLACIER", transitionAfter |-> 90],
                       [storageClass |-> "DEEP_ARCHIVE", transitionAfter |-> 365]>>]

\* getConfig().environments[envName].bucketProps
ConfiguredBucketProps(envName, repository) ==
    IF envName = StrDev
    THEN [MinimalProps EXCEPT
             !.projectId = StrProjectDev,
             !.enableVersioning = Some(TRUE),
             !.enableEncryption = Some(TRUE),
             !.githubRepo = Some(ConfiguredRepo(repository)),
             !.allowedBranches = Some(<<StrMain, StrDevelop, StrFeatureBranches>>),
             !.enableAccessLogging = Some(TRUE),
             !.enableIntelligentTiering = Some(FALSE),
             !.transferAcceleration = Some(FALSE),
             !.notificationConfiguration =
                 Some([cloudWatchMetrics |-> TRUE, eventBridge |-> TRUE])]
    ELSE [MinimalProps EXCEPT
             !.projectId = StrProjectProd,
             !.enableVersioning = Some(TRUE),
             !.enableEncryption = Some(TRUE),
             !.githubRepo = Some(ConfiguredRepo(repository)),
             !.allowedBranches = Some(<<StrMain>>),
             !.enableAccessLogging = Some(TRUE),
             !.enableIntelligentTiering = Some(TRUE),
             !.transferAcceleration = Some(TRUE),
             !.notificationConfiguration =
                 Some([cloudWatchMetrics |-> TRUE, eventBridge |-> TRUE]),
             !.lifecycleRules = Some(<<ProductionLifecyclePolicy>>)]

\* { ...envConfig.bucketProps, environment: envName }
StackBucketProps(envName, repository) ==
    [ConfiguredBucketProps(envName, repository) EXCEPT !.environment = Some(envName)]

\* a shouldDeployEnvironment that keeps the dev default beside a target
shouldDeployEnvironment_DevBesideTarget(targetEnv, envName) ==
    (TruthyStr(targetEnv) /\ Val(targetEnv) = envName) \/ envName = StrDev

\* shouldDeployEnvironment; targetEnv is this.node.tryGetContext('env')
shouldDeployEnvironment(targetEnv, envName) ==
    IF TruthyStr(targetEnv) THEN Val(targetEnv) = envName ELSE envName = StrDev

\* `new SecureBucketApp()` up to the forEach: no environment visited, no stack
InitApp ==
    /\ app \in {Some([context |-> c, repository |-> r, entries |-> EnvironmentNames,
                      stacks |-> <<>>]) :
                    c \in ContextValues, r \in RepositoryValues}
    /\ props = Absent
    /\ pc = "app"
    /\ error = Absent
    /\ encryptionKey = Absent
    /\ keys = {}
    /\ aliases = {}
    /\ accessLogBucket = Absent
    /\ bucket = Absent
    /\ bucketPolicy = <<>>
    /\ oidcProviders = {}
    /\ githubOidcRole = Absent
    /\ grants = {}
    /\ logGroup = Absent
    /\ outputs = {}
    /\ first = Absent
    /\ simple = Absent

\* the forEach callback on an environment that shouldDeployEnvironment selects:
\* `new SecureBucketStack(...)`, whose constructor enters that of SecureBucket in
\* the scope of the new stack
NewSecureBucketStack ==
    /\ app # Absent
    /\ pc = "app"
    /\ Val(app).entries # <<>>
    /\ LET envName == Head(Val(app).entries)
           bucketProps == StackBucketProps(envName, Val(app).repository)
       IN  /\ shouldDeployEnvironment(Val(app).context, envName)
           /\ app' = Some([Val(app) EXCEPT
                              !.entries = Tail(@),
                              !.stacks = Append(@, [id |-> StrStackIdPrefix \o envName,
                                                    envName |-> envName,
                                                    bucketProps |-> bucketProps])])
           /\ props' = bucketProps
    /\ pc' = "validate"
    /\ error' = Absent
    /\ encryptionKey' = Absent
    /\ keys' = {}
    /\ aliases' = {}
    /\ accessLogBucket' = Absent
    /\ bucket' = Absent
    /\ bucketPolicy' = <<>>
    /\ oidcProviders' = {}
    /\ githubOidcRole' = Absent
    /\ grants' = {}
    /\ logGroup' = Absent
    /\ outputs' = {}
    /\ UNCHANGED <<first, simple>>

\* the forEach callback on an environment that shouldDeployEnvironment rejects
SkipEnvironment ==
    /\ app # Absent
    /\ pc = "app"
    /\ Val(app).entries # <<>>
    /\ ~shouldDeployEnvironment(Val(app).context, Head(Val(app).entries))
    /\ app' = Some([Val(app) EXCEPT !.entries = Tail(@)])
    /\ UNCHANGED <<props, pc, error, encryptionKey, keys, aliases, accessLogBucket,
                   bucket, bucketPolicy, oidcProviders, githubOidcRole, grants,
                   logGroup, outputs, first, simple>>

\* the constructor of SecureBucketStack returns to the forEach
SecureBucketStackReturns ==
    /\ app # Absent
    /\ pc = "done"
    /\ pc' = "app"
    /\ UNCHANGED <<props, error, encryptionKey, keys, aliases, accessLogBucket,
                   bucket, bucketPolicy, oidcProviders, githubOidcRole, grants,
                   logGroup, outputs, first, app, simple>>

NextApp ==
    \/ NewSecureBucketStack
    \/ SkipEnvironment
    \/ SecureBucketStackReturns
    \/ Next

SpecApp == InitApp /\ [][NextApp]_vars

\* ------------------------------------------------------------------------
\* The simplified SecureBucket (props encryption and versioning) and its stack
\* ------------------------------------------------------------------------

\* the props objects of the simplified SecureBucketProps
SimpleProps ==
    {[encryption |-> e, versioning |-> v] :
        e \in {Absent} \cup OptBool, v \in {Absent} \cup OptBool}

\* the props object {}
EmptyProps ==
    [encryption |-> Absent, versioning |-> Absent]

\* x ?? false
OrFalse(x) ==
    IF x = Absent THEN FALSE ELSE Val(x)

\* the AWS::S3::Bucket that `new s3.Bucket(this, 'SecureBucketResource', {encryption,
\* versioned})` puts in the template: a bucket that is not versioned has no
\* VersioningConfiguration
BucketResource(encryption, versioned) ==
    [id |-> "SecureBucketResource", type |-> "AWS::S3::Bucket",
     BucketEncryption |->
         IF encryption = Some("S3_MANAGED") THEN Some("AES256") ELSE Absent,
     VersioningConfiguration |-> IF versioned THEN Some("Enabled") ELSE Absent]

\* the AWS::S3::Bucket that `new s3.CfnBucket(this, 'SecureBucketResource',
\* {bucketEncryption, versioningConfiguration})` puts in the template
CfnBucketResource(sseAlgorithm, status) ==
    [id |-> "SecureBucketResource", type |-> "AWS::S3::Bucket",
     BucketEncryption |-> sseAlgorithm,
     VersioningConfiguration |-> Some(status)]

\* the argument of SecureBucketStack's constructor is undefined, or an object whose
\* bucketProps is undefined or a props object; the argument of SecureBucket's
\* constructor, when it is called directly, is undefined or a props object
InitSimple ==
    /\ simple \in
          {Some([variant |-> v, pc |-> "stack", stackProps |-> s, arg |-> Absent,
                 encryptionEnabled |-> Absent, versioningEnabled |-> Absent,
                 resources |-> <<>>]) :
              v \in {"s3.Bucket", "s3.CfnBucket"},
              s \in {Absent} \cup {Some([bucketProps |-> b]) :
                                      b \in {Absent} \cup {Some(q) : q \in SimpleProps}}}
          \cup
          {Some([variant |-> v, pc |-> "construct", stackProps |-> Absent, arg |-> a,
                 encryptionEnabled |-> Absent, versioningEnabled |-> Absent,
                 resources |-> <<>>]) :
              v \in {"s3.Bucket", "s3.CfnBucket"},
              a \in {Absent} \cup {Some(q) : q \in SimpleProps}}
    /\ props = Absent
    /\ pc = "simple"
    /\ error = Absent
    /\ encryptionKey = Absent
    /\ keys = {}
    /\ aliases = {}
    /\ accessLogBucket = Absent
    /\ bucket = Absent
    /\ bucketPolicy = <<>>
    /\ oidcProviders = {}
    /\ githubOidcRole = Absent
    /\ grants = {}
    /\ logGroup = Absent
    /\ outputs = {}
    /\ first = Absent
    /\ app = Absent

\* `new SecureBucket(this, 'MySecureBucket', props?.bucketProps || {})`
SecureBucketStackConstructor ==
    /\ simple # Absent
    /\ Val(simple).pc = "stack"
    /\ simple' =
          Some([Val(simple) EXCEPT
                   !.pc = "construct",
                   !.arg = IF Val(simple).stackProps # Absent
                                /\ Val(Val(simple).stackProps).bucketProps # Absent
                           THEN Val(Val(simple).stackProps).bucketProps
                           ELSE Some(EmptyProps)])
    /\ UNCHANGED <<props, pc, error, encryptionKey, keys, aliases, accessLogBucket,
                   bucket, bucketPolicy, oidcProviders, githubOidcRole, grants,
                   logGroup, outputs, first, app>>

\* the parameter default `props = {}` and the two locals
SimpleDefaults ==
    /\ simple # Absent
    /\ Val(simple).pc = "construct"
    /\ LET p == IF Val(simple).arg = Absent THEN EmptyProps ELSE Val(Val(simple).arg)
       IN  simple' = Some([Val(simple) EXCEPT
                              !.pc = "bucket",
                              !.encryptionEnabled = Some(OrFalse(p.encryption)),
                              !.versioningEnabled = Some(OrFalse(p.versioning))])
    /\ UNCHANGED <<props, pc, error, encryptionKey, keys, aliases, accessLogBucket,
                   bucket, bucketPolicy, oidcProviders, githubOidcRole, grants,
                   logGroup, outputs, first, app>>

\* the variant that creates an s3.Bucket
NewBucket ==
    /\ simple # Absent
    /\ Val(simple).pc = "bucket"
    /\ Val(simple).variant = "s3.Bucket"
    /\ simple' =
          Some([Val(simple) EXCEPT
                   !.pc = "done",
                   !.resources =
                       Append(@, BucketResource(
                                     IF Val(Val(simple).encryptionEnabled)
                                     THEN Some("S3_MANAGED") ELSE Absent,
                                     Val(Val(simple).versioningEnabled)))])
    /\ UNCHANGED <<props, pc, error, encryptionKey, keys, aliases, accessLogBucket,
                   bucket, bucketPolicy, oidcProviders, githubOidcRole, grants,
                   logGroup, outputs, first, app>>

\* the variant that creates an s3.CfnBucket
NewCfnBucket ==
    /\ simple # Absent
    /\ Val(simple).pc = "bucket"
    /\ Val(simple).variant = "s3.CfnBucket"
    /\ simple' =
          Some([Val(simple) EXCEPT
                   !.pc = "done",
                   !.resources =
                       Append(@, CfnBucketResource(
                                     IF Val(Val(simple).encryptionEnabled)
                                     THEN Some("AES256") ELSE Absent,
                                     IF Val(Val(simple).versioningEnabled)
                                     THEN "Enabled" ELSE "Suspended"))])
    /\ UNCHANGED <<props, pc, error, encryptionKey, keys, aliases, accessLogBucket,
                   bucket, bucketPolicy, oidcProviders, githubOidcRole, grants,
                   logGroup, outputs, first, app>>

NextSimple ==
    \/ SecureBucketStackConstructor
    \/ SimpleDefaults
    \/ NewBucket
    \/ NewCfnBucket

SpecSimple == InitSimple /\ [][NextSimple]_vars

\* ------------------------------------------------------------------------
\* Vocabulary of the properties
\* ------------------------------------------------------------------------

\* the constructor has returned
Resolved == pc = "done"

\* createBucketPolicy has run
PolicyAttached == pc \in {"oidc", "logGroup", "outputs", "done"}

\* the statements of the main bucket's resource policy, as a set
PolicySet == {bucketPolicy[i] : i \in 1..Len(bucketPolicy)}

\* s denies every S3 action on the bucket and its objects to any principal over an
\* insecure transport
IsInsecureTransportDeny(s) ==
    /\ s.effect = "Deny"
    /\ s.principals = "AnyPrincipal"
    /\ s.actions = {"s3:*"}
    /\ s.resources = {"bucketArn", "arnForObjects(*)"}
    /\ s.condition.operator = "Bool"
    /\ s.condition.key = "aws:SecureTransport"
    /\ s.condition.value = "false"

\* s denies s3:PutObject to any principal unless the upload declares some value of
\* the server-side-encryption header
IsUnencryptedUploadDeny(s) ==
    /\ s.effect = "Deny"
    /\ s.principals = "AnyPrincipal"
    /\ "s3:PutObject" \in s.actions
    /\ s.condition.operator = "StringNotEquals"
    /\ s.condition.key = "s3:x-amz-server-side-encryption"

\* no child construct has been created and no field of the construct is set
NoResources ==
    /\ encryptionKey = Absent
    /\ keys = {}
    /\ aliases = {}
    /\ accessLogBucket = Absent
    /\ bucket = Absent
    /\ bucketPolicy = <<>>
    /\ oidcProviders = {}
    /\ githubOidcRole = Absent
    /\ grants = {}
    /\ logGroup = Absent
    /\ outputs = {}

\* every prop other than projectId is left out
OnlyProjectId ==
    \A i \in 2..Len(PropNames) : props[PropNames[i]] = Absent

\* the number of s3.Bucket constructs created
BucketCount ==
    (IF bucket = Absent THEN 0 ELSE 1) + (IF accessLogBucket = Absent THEN 0 ELSE 1)

\* 'required'
StrRequired ==
    <<"r","e","q","u","i","r","e","d">>
\* '20 characters'
Str20Characters ==
    <<"2","0"," ","c","h","a","r","a","c","t","e","r","s">>
\* 'lowercase'
StrLowercase ==
    <<"l","o","w","e","r","c","a","s","e">>
\* 'organization/repository'
StrOrgRepo ==
    <<"o","r","g","a","n","i","z","a","t","i","o","n","/","r","e","p","o","s","i","t",
      "o","r","y">>

\* ------------------------------------------------------------------------
\* Properties
\* ------------------------------------------------------------------------

\* C1: with enableEncryption not false, the policy of the main bucket holds, besides
\* the transport deny, a deny of s3:PutObject for any principal whose condition
\* compares the server-side-encryption header with "aws:kms" when the bucket's mode
\* is key-backed and with "AES256" otherwise.
C1_DenyUnencryptedUploadsAttached ==
    (Resolved /\ NotFalse(props.enableEncryption)) =>
        /\ \E s \in PolicySet : IsInsecureTransportDeny(s)
        /\ \E s \in PolicySet :
              /\ IsUnencryptedUploadDeny(s)
              /\ s.condition.value =
                    IF Val(bucket).encryption = "KMS" THEN "aws:kms" ELSE "AES256"

\* C2: for every valid input, whatever the toggles, once the policy step has run the
\* main bucket's resource policy holds a deny of s3:* on the bucket and its objects
\* for any principal, conditioned on aws:SecureTransport being false.
C2_DenyInsecureTransport ==
    PolicyAttached => \E s \in PolicySet : IsInsecureTransportDeny(s)

\* C2 witness: a finished resolution with encryption switched off whose policy holds
\* the transport deny
C2_Witness ==
    /\ Resolved
    /\ props.enableEncryption = Some(FALSE)
    /\ \E s \in PolicySet : IsInsecureTransportDeny(s)

\* the four checks of the validator, stated on the input
ProjectIdBlank ==
    \A i \in 1..Len(props.projectId) : props.projectId[i] \in WhitespaceChars

ProjectIdTooLong ==
    Len(props.projectId) > 20

ProjectIdBadChars ==
    \E i \in 1..Len(props.projectId) :
        props.projectId[i] \notin LowerChars \cup DigitChars \cup {"-"}

\* the error, if any, is the one of the first failing check; the fourth check is
\* given by repoFails
ErrorIsFirstFailure(repoFails) ==
    /\ ProjectIdBlank =>
          error # Absent /\ Contains(Val(error), StrRequired)
    /\ (~ProjectIdBlank /\ ProjectIdTooLong) =>
          error # Absent /\ Contains(Val(error), Str20Characters)
    /\ (~ProjectIdBlank /\ ~ProjectIdTooLong /\ ProjectIdBadChars) =>
          error # Absent /\ Contains(Val(error), StrLowercase)
    /\ (~ProjectIdBlank /\ ~ProjectIdTooLong /\ ~ProjectIdBadChars /\ repoFails) =>
          error # Absent /\ Contains(Val(error), StrOrgRepo)
    /\ (~ProjectIdBlank /\ ~ProjectIdTooLong /\ ~ProjectIdBadChars /\ ~repoFails) =>
          error = Absent

\* C3 as stated: the checks run in the order blank, too long, bad characters,
\* githubRepo present and not organization/repository; the error raised is that of
\* the first failing check and an input failing none raises no error.
C3_Original ==
    pc # "validate" =>
        ErrorIsFirstFailure(props.githubRepo # Absent
                                /\ ~MatchesOrgRepo(Val(props.githubRepo)))

\* C3 amended: the same, where the fourth check applies to a non-empty githubRepo
\* only; an empty githubRepo is treated like an absent one and raises no error.
C3_ValidationOrder ==
    pc # "validate" =>
        ErrorIsFirstFailure(props.githubRepo # Absent
                                /\ Val(props.githubRepo) # <<>>
                                /\ ~MatchesOrgRepo(Val(props.githubRepo)))

\* C3 witness: a projectId failing both the length and the character check was
\* rejected with the length message
C3_Witness ==
    /\ pc = "failed"
    /\ ~ProjectIdBlank
    /\ ProjectIdTooLong
    /\ ProjectIdBadChars
    /\ Contains(Val(error), Str20Characters)
    /\ ~Contains(Val(error), StrLowercase)

\* C4: a failed validation leaves the set of produced resources empty, and nothing
\* is produced before validation has passed.
C4_NoResourceWithoutValidation ==
    (pc \in {"validate", "failed"} \/ error # Absent) => NoResources

\* C4 witness: validation failed on an input that asked for a key, a log bucket and
\* a role
C4_Witness ==
    /\ pc = "failed"
    /\ error # Absent
    /\ NotFalse(props.enableEncryption)
    /\ NotFalse(props.enableAccessLogging)
    /\ props.githubRepo # Absent
    /\ NoResources

\* C5: with enableEncryption false, whatever encryptionKey and the other inputs are,
\* no key and no alias exist, the main bucket is unencrypted with no key bound, no
\* deny-unencrypted-upload statement is attached and no key output is emitted.
C5_EncryptionDisabled ==
    props.enableEncryption = Some(FALSE) =>
        /\ keys = {}
        /\ aliases = {}
        /\ encryptionKey = Absent
        /\ bucket # Absent =>
              Val(bucket).encryption = "UNENCRYPTED" /\ Val(bucket).encryptionKey = Absent
        /\ \A s \in PolicySet : ~IsUnencryptedUploadDeny(s)
        /\ \A o \in outputs : o.id # "EncryptionKeyArn"

\* C5 witness: a finished resolution with enableEncryption false and a key supplied
C5_Witness ==
    /\ Resolved
    /\ props.enableEncryption = Some(FALSE)
    /\ props.encryptionKey # Absent
    /\ Val(bucket).encryption = "UNENCRYPTED"
    /\ outputs # {}

\* C6: with enableEncryption not false and encryptionKey supplied, the main bucket's
\* mode is kms and the key bound to it is the supplied key.
C6_SuppliedKeyBound ==
    (Resolved /\ NotFalse(props.enableEncryption) /\ props.encryptionKey # Absent) =>
        /\ Val(bucket).encryption = "KMS"
        /\ Val(bucket).encryptionKey = props.encryptionKey

\* C7: an internal key is created exactly when encryption is enabled and no
\* encryptionKey is supplied; when created it rotates automatically and comes with
\* exactly one alias, named alias/<projectId>-s3-<environment>.
C7_InternalKeyOnlyWithoutSuppliedKey ==
    Resolved =>
        /\ keys # {} <=> (NotFalse(props.enableEncryption) /\ props.encryptionKey = Absent)
        /\ keys # {} =>
              /\ \A k \in keys : k.enableKeyRotation
              /\ Cardinality(aliases) = 1
              /\ \A a \in aliases :
                    a.aliasName = StrAliasPrefix \o props.projectId \o StrS3Infix
                                      \o (IF props.environment \in {Absent, Some(<<>>)}
                                          THEN StrDev
                                          ELSE Val(props.environment))

\* C8: with only a valid projectId supplied the main bucket is named
\* <projectId>-secure-bucket-dev, is versioned, has default encryption AES256
\* (S3-managed) and has all four public-access-block flags true.
C8_MinimalConfiguration ==
    (Resolved /\ OnlyProjectId) =>
        /\ Val(bucket).bucketName = props.projectId \o <<"-">> \o StrSecureBucket
                                        \o <<"-">> \o StrDev
        /\ Val(bucket).versioned
        /\ Val(bucket).encryption = "S3_MANAGED"
        /\ Val(bucket).blockPublicAccess = BLOCK_ALL

\* C9: with enableAccessLogging false, whatever accessLogBucket is, the main bucket
\* has neither a logging target nor a log prefix and no internal log bucket exists.
C9_LoggingDisabled ==
    (Resolved /\ props.enableAccessLogging = Some(FALSE)) =>
        /\ Val(bucket).serverAccessLogsBucket = Absent
        /\ Val(bucket).serverAccessLogsPrefix = Absent
        /\ accessLogBucket = Absent

\* C10: with access logging enabled and an external accessLogBucket name given, no
\* internal log bucket is created, exactly one bucket exists, and the main bucket
\* logs to the given name with prefix "access-logs/".
C10_ExternalLogBucket ==
    (Resolved /\ NotFalse(props.enableAccessLogging)
        /\ props.accessLogBucket # Absent /\ Val(props.accessLogBucket) # <<>>) =>
        /\ accessLogBucket = Absent
        /\ BucketCount = 1
        /\ Val(bucket).serverAccessLogsBucket = props.accessLogBucket
        /\ Val(bucket).serverAccessLogsPrefix = Some(StrAccessLogsPrefix)

\* the internal log bucket, when it exists, makes two buckets, is named
\* <bucketName>-access-logs, is S3-managed-encrypted, blocks all public access and
\* has one enabled rule expiring objects after 90 days
InternalLogBucketShape ==
    accessLogBucket # Absent =>
        /\ BucketCount = 2
        /\ Val(accessLogBucket).bucketName = Val(bucket).bucketName \o StrAccessLogsSuffix
        /\ Val(accessLogBucket).encryption = "S3_MANAGED"
        /\ Val(accessLogBucket).blockPublicAccess.blockPublicAcls
        /\ Val(accessLogBucket).blockPublicAccess.blockPublicPolicy
        /\ Val(accessLogBucket).blockPublicAccess.ignorePublicAcls
        /\ Val(accessLogBucket).blockPublicAccess.restrictPublicBuckets
        /\ Len(Val(accessLogBucket).lifecycleRules) = 1
        /\ Val(accessLogBucket).lifecycleRules[1].enabled
        /\ Val(accessLogBucket).lifecycleRules[1].expiration = Some(90)

\* C11 as stated: at most one internal log bucket is created, exactly when
\* enableAccessLogging is not false and no accessLogBucket is given; it then has the
\* shape above, whatever the main bucket's encryption and publicReadAccess are.
C11_Original ==
    Resolved =>
        /\ BucketCount <= 2
        /\ accessLogBucket # Absent <=>
              (NotFalse(props.enableAccessLogging) /\ props.accessLogBucket = Absent)
        /\ InternalLogBucketShape

\* C11 amended: the same, where the internal log bucket is created exactly when
\* enableAccessLogging is not false and accessLogBucket is absent or the empty
\* string.
C11_InternalLogBucket ==
    Resolved =>
        /\ BucketCount <= 2
        /\ accessLogBucket # Absent <=>
              (NotFalse(props.enableAccessLogging)
                  /\ props.accessLogBucket \in {Absent, Some(<<>>)})
        /\ InternalLogBucketShape

\* C11 witness: a finished resolution with public read access on the main bucket and
\* an internal log bucket that blocks all public access
C11_Witness ==
    /\ Resolved
    /\ props.publicReadAccess = Some(TRUE)
    /\ accessLogBucket # Absent
    /\ ~Val(bucket).blockPublicAccess.blockPublicPolicy
    /\ Val(accessLogBucket).blockPublicAccess.blockPublicPolicy
    /\ BucketCount = 2

\* C12: with access logging enabled and no external accessLogBucket given, the main
\* bucket logs to the internal log bucket and no log prefix is set on it.
C12_InternalLogTargetNoPrefix ==
    (Resolved /\ NotFalse(props.enableAccessLogging) /\ props.accessLogBucket = Absent) =>
        /\ accessLogBucket # Absent
        /\ Val(bucket).serverAccessLogsBucket = Some(Val(accessLogBucket).bucketName)
        /\ Val(bucket).serverAccessLogsPrefix = Absent

\* C13: publicReadAccess true resolves the main bucket's flags to blockPublicAcls
\* true, blockPublicPolicy false, ignorePublicAcls true, restrictPublicBuckets false;
\* every other value (false or absent) resolves all four flags to true.
C13_PublicAccessFlags ==
    bucket # Absent =>
        LET b == Val(bucket).blockPublicAccess
        IN  IF props.publicReadAccess = Some(TRUE)
            THEN /\ b.blockPublicAcls
                 /\ ~b.blockPublicPolicy
                 /\ b.ignorePublicAcls
                 /\ ~b.restrictPublicBuckets
            ELSE /\ b.blockPublicAcls
                 /\ b.blockPublicPolicy
                 /\ b.ignorePublicAcls
                 /\ b.restrictPublicBuckets

\* C13 witness: a finished resolution with publicReadAccess true and two flags off
C13_Witness ==
    /\ Resolved
    /\ props.publicReadAccess = Some(TRUE)
    /\ ~Val(bucket).blockPublicAccess.blockPublicPolicy
    /\ ~Val(bucket).blockPublicAccess.restrictPublicBuckets

\* the subject claim of branch br of repository repo
SubjectOf(repo, br) ==
    StrRepoPrefix \o repo \o StrRefInfix \o br

\* C14: the role's trust policy requires audience sts.amazonaws.com and its subject
\* list is repo:<githubRepo>:ref:refs/heads/<branch> for each entry of
\* allowedBranches, in the same order and nothing else; with allowedBranches unset
\* the list is that of main and develop.
C14_TrustPolicySubjects ==
    githubOidcRole # Absent =>
        LET role == Val(githubOidcRole)
            repo == Val(props.githubRepo)
        IN  /\ role.aud = "sts.amazonaws.com"
            /\ props.allowedBranches # Absent =>
                  /\ Len(role.sub) = Len(Val(props.allowedBranches))
                  /\ \A i \in 1..Len(role.sub) :
                        role.sub[i] = SubjectOf(repo, Val(props.allowedBranches)[i])
            /\ props.allowedBranches = Absent =>
                  role.sub = <<SubjectOf(repo, StrMain), SubjectOf(repo, StrDevelop)>>

\* C14 witness: a role created for a two-branch list, its subjects in the list's
\* order
C14_Witness ==
    /\ Resolved
    /\ githubOidcRole # Absent
    /\ props.allowedBranches # Absent
    /\ Len(Val(props.allowedBranches)) = 2
    /\ Val(githubOidcRole).sub[2] = SubjectOf(Val(props.githubRepo), StrMain)

\* the provider and the role, when githubRepo is given as set: one provider with the
\* GitHub issuer and the STS audience, one role named after the bucket name
ProviderAndRole(repoSet) ==
    /\ (oidcProviders # {} \/ githubOidcRole # Absent) => props.githubRepo # Absent
    /\ repoSet =>
          /\ Cardinality(oidcProviders) = 1
          /\ \A o \in oidcProviders :
                /\ o.url = "https://token.actions.githubusercontent.com"
                /\ o.clientIds = <<"sts.amazonaws.com">>
          /\ githubOidcRole # Absent
          /\ Val(githubOidcRole).roleName = Val(bucket).bucketName \o StrRoleSuffix

\* C15 as stated: a provider and a role are created only when githubRepo is set, and
\* then exactly one provider and one role, the role named
\* <projectId>-<suffix>-<environment>-github-oidc-role with the bucket name's suffix
\* and environment.
C15_Original ==
    Resolved => ProviderAndRole(props.githubRepo # Absent)

\* C15 amended: the same, where the provider and the role are created exactly when
\* githubRepo is set to a non-empty string.
C15_ProviderAndRole ==
    Resolved =>
        /\ ProviderAndRole(props.githubRepo # Absent /\ Val(props.githubRepo) # <<>>)
        /\ props.githubRepo = Some(<<>>) => (oidcProviders = {} /\ githubOidcRole = Absent)

\* C15 witness: a role created with an empty bucketNameSuffix, named after the
\* default suffix like the bucket
C15_Witness ==
    /\ Resolved
    /\ githubOidcRole # Absent
    /\ props.bucketNameSuffix = Some(<<>>)
    /\ Val(bucket).bucketName = props.projectId \o <<"-">> \o StrSecureBucket
                                    \o <<"-">> \o StrDev
    /\ Val(githubOidcRole).roleName = Val(bucket).bucketName \o StrRoleSuffix

\* the grants of encrypt/decrypt
KeyGrants == {g \in grants : g.access = "EncryptDecrypt"}

\* C16: whenever the role is created it may read and write the main bucket, and it
\* may encrypt and decrypt with the key of the main bucket if and only if the bucket
\* has a key; with enableEncryption false there is no key grant.
C16_RoleGrants ==
    githubOidcRole # Absent =>
        /\ \E g \in grants :
              /\ g.grantee = Val(githubOidcRole).id
              /\ g.resource = Val(bucket).id
              /\ g.access = "ReadWrite"
        /\ Val(bucket).encryptionKey # Absent <=>
              \E g \in KeyGrants :
                  /\ g.grantee = Val(githubOidcRole).id
                  /\ g.resource = Val(Val(bucket).encryptionKey)
        /\ \A g \in KeyGrants :
              /\ Val(bucket).encryptionKey # Absent
              /\ g.resource = Val(Val(bucket).encryptionKey)
        /\ props.enableEncryption = Some(FALSE) => KeyGrants = {}

\* C16 witness: a role created for a bucket with a key, holding both grants
C16_Witness ==
    /\ Resolved
    /\ githubOidcRole # Absent
    /\ Val(bucket).encryptionKey # Absent
    /\ Cardinality(grants) = 2
    /\ Cardinality(KeyGrants) = 1

\* the input passes the four checks of the validator
InputValid ==
    /\ ~ProjectIdBlank
    /\ ~ProjectIdTooLong
    /\ ~ProjectIdBadChars
    /\ ~(TruthyStr(props.githubRepo) /\ ~MatchesOrgRepo(Val(props.githubRepo)))

\* a valid input is never rejected, the constructor runs on to its end, and the main
\* bucket is named <projectId>-<suffix>-<environment>
SucceedsWithName(suffix, environment) ==
    InputValid =>
        /\ pc # "failed"
        /\ error = Absent
        /\ pc = "done" \/ ENABLED Next
        /\ bucket # Absent =>
              Val(bucket).bucketName =
                  props.projectId \o <<"-">> \o suffix \o <<"-">> \o environment

\* C17 as stated: for every input that passes validation, resolution succeeds and the
\* main bucket is named <projectId>-<suffix>-<environment>, the suffix defaulting to
\* "secure-bucket" and the environment to "dev" when not supplied.
C17_Original ==
    SucceedsWithName(
        IF props.bucketNameSuffix = Absent THEN StrSecureBucket
                                           ELSE Val(props.bucketNameSuffix),
        IF props.environment = Absent THEN StrDev ELSE Val(props.environment))

\* C17 amended: the same, the suffix defaulting to "secure-bucket" and the
\* environment to "dev" when not supplied or supplied as the empty string.
C17_BucketName ==
    SucceedsWithName(
        IF props.bucketNameSuffix \in {Absent, Some(<<>>)} THEN StrSecureBucket
                                                           ELSE Val(props.bucketNameSuffix),
        IF props.environment \in {Absent, Some(<<>>)} THEN StrDev
                                                      ELSE Val(props.environment))

\* C17 witness: a finished resolution with a custom suffix and environment prod
C17_Witness ==
    /\ Resolved
    /\ InputValid
    /\ props.bucketNameSuffix = Some(<<"c","b">>)
    /\ props.environment = Some(StrProd)
    /\ Val(bucket).bucketName = <<"p","1","-","c","b","-","p","r","o","d">>

\* the lifecycle rules of the main bucket
MainRules == Val(bucket).lifecycleRules

\* C18: with environment "prod" and no lifecycleRules, the main bucket has exactly
\* one enabled rule: abort of incomplete multipart uploads after 7 days, noncurrent
\* versions expired after 365 days, no expiration, and three transitions in the
\* order infrequent access at 30, GLACIER at 90, deep archive at 365 days.
C18_ProdLifecycle ==
    (bucket # Absent /\ props.environment = Some(StrProd)
        /\ props.lifecycleRules = Absent) =>
        /\ Len(MainRules) = 1
        /\ MainRules[1].enabled
        /\ MainRules[1].abortIncompleteMultipartUploadAfter = Some(7)
        /\ MainRules[1].noncurrentVersionExpiration = Some(365)
        /\ MainRules[1].expiration = Absent
        /\ Len(MainRules[1].transitions) = 3
        /\ MainRules[1].transitions[1] =
              [storageClass |-> "INFREQUENT_ACCESS", transitionAfter |-> 30]
        /\ MainRules[1].transitions[2] =
              [storageClass |-> "GLACIER", transitionAfter |-> 90]
        /\ MainRules[1].transitions[3] =
              [storageClass |-> "DEEP_ARCHIVE", transitionAfter |-> 365]
        /\ \A i \in 1..2 :
              MainRules[1].transitions[i].transitionAfter
                  < MainRules[1].transitions[i + 1].transitionAfter

\* C18 witness: a finished prod resolution with the three-transition rule
C18_Witness ==
    /\ Resolved
    /\ props.environment = Some(StrProd)
    /\ props.lifecycleRules = Absent
    /\ Len(MainRules[1].transitions) = 3

\* C19: with no lifecycleRules and any environment other than exactly "prod" (dev,
\* absent, PROD, ...), the main bucket has exactly one enabled rule: expiration at 30
\* days, abort of incomplete multipart uploads after 1 day, noncurrent versions
\* expired after 7 days, no transitions.
C19_DevLifecycle ==
    (bucket # Absent /\ props.environment # Some(StrProd)
        /\ props.lifecycleRules = Absent) =>
        /\ Len(MainRules) = 1
        /\ MainRules[1].enabled
        /\ MainRules[1].expiration = Some(30)
        /\ MainRules[1].abortIncompleteMultipartUploadAfter = Some(1)
        /\ MainRules[1].noncurrentVersionExpiration = Some(7)
        /\ MainRules[1].transitions = <<>>

\* C19 witness: a finished resolution for environment PROD with the development rule
C19_Witness ==
    /\ Resolved
    /\ props.environment = Some(<<"P","R","O","D">>)
    /\ props.lifecycleRules = Absent
    /\ MainRules[1].expiration = Some(30)

\* C20: supplied lifecycleRules, the empty list included, are the main bucket's rules
\* unchanged for every environment, and no default rule is added.
C20_LifecycleOverride ==
    (bucket # Absent /\ props.lifecycleRules # Absent) =>
        /\ MainRules = Val(props.lifecycleRules)
        /\ \A i \in 1..Len(MainRules) :
              MainRules[i].id \notin {"production-lifecycle", "development-lifecycle"}

\* C20 witness: a finished prod resolution with an empty list supplied and no rule
C20_Witness ==
    /\ Resolved
    /\ props.lifecycleRules = Some(<<>>)
    /\ props.environment = Some(StrProd)
    /\ MainRules = <<>>

\* the ids of the outputs
OutputIds == {o.id : o \in outputs}

\* the suffix of the export name of each kind of output
OutputSuffix(id) ==
    CASE id = "BucketName" -> StrOutBucketName
      [] id = "BucketArn" -> StrOutBucketArn
      [] id = "EncryptionKeyArn" -> StrOutEncryptionKeyArn
      [] id = "GitHubOidcRoleArn" -> StrOutGitHubOidcRoleArn
      [] id = "LogGroupName" -> StrOutLogGroupName

\* C21: a successful resolution emits a bucket name and a bucket ARN output, a key
\* ARN output if and only if the construct has a key, a role ARN output if and only
\* if the role was created; the export name of every output is the main bucket's name
\* followed by the suffix of its kind.
C21_Outputs ==
    Resolved =>
        /\ {"BucketName", "BucketArn"} \subseteq OutputIds
        /\ ("EncryptionKeyArn" \in OutputIds) <=> (encryptionKey # Absent)
        /\ ("GitHubOidcRoleArn" \in OutputIds) <=> (githubOidcRole # Absent)
        /\ Cardinality(outputs) = Cardinality(OutputIds)
        /\ \A o \in outputs :
              /\ o.id \in {"BucketName", "BucketArn", "EncryptionKeyArn",
                           "GitHubOidcRoleArn", "LogGroupName"}
              /\ o.exportName = Val(bucket).bucketName \o OutputSuffix(o.id)

\* C21 witness: a resolution with a key and a role, the five outputs exported under
\* a caller's suffix and environment
C21_Witness ==
    /\ Resolved
    /\ encryptionKey # Absent
    /\ githubOidcRole # Absent
    /\ Cardinality(outputs) = 5
    /\ props.environment = Some(StrProd)
    /\ \E o \in outputs :
          /\ o.id = "GitHubOidcRoleArn"
          /\ o.exportName = props.projectId \o <<"-">> \o StrSecureBucket \o <<"-">>
                                \o StrProd \o StrOutGitHubOidcRoleArn

\* C22: a successful resolution has one log group, kept 180 days and named
\* /aws/s3/<bucketName>, whatever the feature toggles.
C22_LogGroup ==
    Resolved =>
        /\ logGroup # Absent
        /\ RetentionInDays(Val(logGroup).retention) = 180
        /\ Val(logGroup).logGroupName = StrLogGroupPrefix \o Val(bucket).bucketName

\* C22 witness: the log group of a resolution with encryption and access logging
\* switched off
C22_Witness ==
    /\ Resolved
    /\ props.enableEncryption = Some(FALSE)
    /\ props.enableAccessLogging = Some(FALSE)
    /\ logGroup # Absent
    /\ Val(logGroup).logGroupName =
          StrLogGroupPrefix \o props.projectId \o <<"-">> \o StrSecureBucket
              \o <<"-">> \o StrDev

\* C24: the main bucket is versioned when enableVersioning is true or absent and has
\* no versioning when enableVersioning is false.
C24_Versioning ==
    bucket # Absent =>
        /\ props.enableVersioning \in {Absent, Some(TRUE)} => Val(bucket).versioned
        /\ props.enableVersioning = Some(FALSE) => ~Val(bucket).versioned

\* C24 witness: a versioned main bucket with enableVersioning absent
C24_Witness ==
    /\ Resolved
    /\ props.enableVersioning = Absent
    /\ Val(bucket).versioned

\* the position that follows each position of the constructor
Following(step) ==
    CASE step = "validate" -> {"encryption", "failed"}
      [] step = "encryption" -> {"accessLog"}
      [] step = "accessLog" -> {"bucket"}
      [] step = "bucket" -> {"policy"}
      [] step = "policy" -> {"oidc"}
      [] step = "oidc" -> {"logGroup"}
      [] step = "logGroup" -> {"outputs"}
      [] step = "outputs" -> {"done"}
      [] OTHER -> {}

\* C26: the steps run in the order validate, encryption key and alias, access log
\* target, main bucket, policy, federation role (only with githubRepo set), log
\* group, outputs; each resource is produced by its own step, and the outputs step
\* runs with the key, the role and the log group already resolved.
C26_StepOrder ==
    [][/\ pc' \in Following(pc)
       /\ error' # error => pc = "validate"
       /\ <<encryptionKey, keys, aliases>>' # <<encryptionKey, keys, aliases>>
             => pc = "encryption"
       /\ accessLogBucket' # accessLogBucket => pc = "accessLog"
       /\ bucket' # bucket => pc = "bucket"
       /\ bucketPolicy' # bucketPolicy => pc = "policy"
       /\ <<oidcProviders, githubOidcRole, grants>>'
                # <<oidcProviders, githubOidcRole, grants>>
             => pc = "oidc" /\ props.githubRepo # Absent
       /\ logGroup' # logGroup => pc = "logGroup"
       /\ outputs' # outputs => pc = "outputs"
       /\ pc = "outputs" =>
             /\ logGroup # Absent
             /\ bucket # Absent
             /\ bucketPolicy # <<>>
             /\ NotFalse(props.enableEncryption) => encryptionKey # Absent
             /\ TruthyStr(props.githubRepo) => githubOidcRole # Absent
      ]_vars

\* C26 witness: a run through all eight steps, each having produced its resource
C26_Witness ==
    /\ Resolved
    /\ keys # {}
    /\ accessLogBucket # Absent
    /\ bucket # Absent
    /\ bucketPolicy # <<>>
    /\ githubOidcRole # Absent
    /\ logGroup # Absent
    /\ outputs # {}

ExplicitBranches(repoSet) ==
    /\ (repoSet /\ props.allowedBranches = Some(<<>>)) =>
          /\ githubOidcRole # Absent
          /\ Val(githubOidcRole).sub = <<>>
    /\ (githubOidcRole # Absent /\ props.allowedBranches # Absent) =>
          Len(Val(githubOidcRole).sub) = Len(Val(props.allowedBranches))
    /\ (githubOidcRole # Absent /\ Len(Val(githubOidcRole).sub) = 2
            /\ Val(githubOidcRole).sub[2]
                  = SubjectOf(Val(props.githubRepo), StrDevelop)) =>
          props.allowedBranches = Absent

\* C29 as stated: the defaults main and develop are used only when allowedBranches
\* is absent; with githubRepo set and allowedBranches empty the role is created with
\* an empty subject list; a non-empty allowedBranches gives as many subjects.
C29_Original ==
    Resolved => ExplicitBranches(props.githubRepo # Absent)

\* C29 amended: the same, where the role is created when githubRepo is set to a
\* non-empty string.
C29_EmptyBranches ==
    Resolved =>
        ExplicitBranches(props.githubRepo # Absent /\ Val(props.githubRepo) # <<>>)

\* C29 witness: a role created for an empty allowedBranches, its subject list empty
C29_Witness ==
    /\ Resolved
    /\ TruthyStr(props.githubRepo)
    /\ props.allowedBranches = Some(<<>>)
    /\ githubOidcRole # Absent
    /\ Val(githubOidcRole).sub = <<>>

StackEnvironments ==
    [i \in 1..Len(Val(app).stacks) |-> Val(app).stacks[i].envName]

\* the forEach of the app constructor has ended, or a stack's construct has thrown
AppEnded ==
    \/ pc = "app" /\ Val(app).entries = <<>>
    \/ pc = "failed"

\* at most one stack, the one the context selects where noContext tells a missing
\* context; every stack's construct receives the stack's environment name
StackSelection(noContext) ==
    /\ Len(Val(app).stacks) <= 1
    /\ \A i \in 1..Len(Val(app).stacks) :
          LET stack == Val(app).stacks[i]
          IN  /\ stack.id = StrStackIdPrefix \o stack.envName
              /\ stack.bucketProps.environment = Some(stack.envName)
    /\ pc # "app" =>
          /\ Len(Val(app).stacks) = 1
          /\ props.environment = Some(Val(app).stacks[1].envName)
    /\ bucket # Absent =>
          Val(bucket).bucketName =
              props.projectId \o <<"-">> \o StrSecureBucket \o <<"-">>
                  \o Val(app).stacks[1].envName
    /\ AppEnded =>
          /\ noContext => StackEnvironments = <<StrDev>>
          /\ Val(app).context \in {Some(StrDev), Some(StrProd)} =>
                StackEnvironments = <<Val(Val(app).context)>>
          /\ (~noContext /\ Val(app).context \notin {Some(StrDev), Some(StrProd)}) =>
                StackEnvironments = <<>>

\* C30 as stated: the app instantiates at most one stack: the dev stack with no 'env'
\* context, the stack of the context with context dev or prod, none with any other
\* context; the stack's construct receives environment equal to the stack's
\* environment name.
C30_Original ==
    StackSelection(Val(app).context = Absent)

\* C30 amended: the same, where an empty 'env' context selects the dev stack like a
\* missing one.
C30_StackSelection ==
    StackSelection(~TruthyStr(Val(app).context))

\* C30 witness: context prod, dev skipped, the prod stack's construct resolved with
\* environment prod
C30_Witness ==
    /\ AppEnded
    /\ Val(app).context = Some(StrProd)
    /\ StackEnvironments = <<StrProd>>
    /\ pc = "app"
    /\ props.environment = Some(StrProd)
    /\ bucket # Absent
    /\ Val(bucket).bucketName =
          StrProjectProd \o <<"-">> \o StrSecureBucket \o <<"-">> \o StrProd

\* the props the caller of the simplified construct has given: none is like {}
GivenSimpleProps ==
    IF Val(simple).arg = Absent THEN EmptyProps ELSE Val(Val(simple).arg)

\* C25: the simplified construct produces exactly one bucket for every props value
\* and for none; omitted props behave as false; the bucket has default encryption
\* AES256 if and only if encryption is true; its versioning status is Enabled when
\* versioning is true and Suspended when versioning is false or omitted.
C25_SimplifiedConstruct ==
    Val(simple).pc = "done" =>
        /\ Len(Val(simple).resources) = 1
        /\ LET b == Val(simple).resources[1]
           IN  /\ b.type = "AWS::S3::Bucket"
               /\ (b.BucketEncryption = Some("AES256"))
                     <=> (GivenSimpleProps.encryption = Some(TRUE))
               /\ b.BucketEncryption \in {Absent, Some("AES256")}
               /\ GivenSimpleProps.versioning = Some(TRUE)
                     => b.VersioningConfiguration = Some("Enabled")
               /\ GivenSimpleProps.versioning \in {Absent, Some(FALSE)}
                     => b.VersioningConfiguration = Some("Suspended")

====
